---- MODULE Spec2Model ----
(***************************************************************************)
(* Model of backend/ai_generator.py: AIGenerator.generate_response and the *)
(* two paths it routes to (the legacy single-round path and the sequential *)
(* multi-round path).  One behaviour of Spec is one call of                *)
(* generate_response; a behaviour of ConcSpec is two calls on one instance.*)
(* The language model service and the tool executor                        *)
(* are the environment: every model request either raises or returns some  *)
(* response, every tool execution either raises or returns some text.      *)
(*                                                                         *)
(* Texts are sequences of string pieces; concatenation is \o and a slice   *)
(* s[:n] is Take(s, n).  A Python None / missing dict key is an optional   *)
(* value [some |-> FALSE, ...].                                            *)
(***************************************************************************)
EXTENDS Integers, Sequences, FiniteSets, TLC

VARIABLES
    query, conversation_history, tools, tool_manager, max_tool_rounds,
    enable_sequential,      \* the arguments of the call
    pc,                     \* position of the call in the code
    path,                   \* which path generate_response routed to
    system_content,         \* local: static prompt plus history block
    current_messages,       \* local of _execute_tool_rounds
    round_results,          \* local of _execute_tool_rounds
    current_round,          \* local of _execute_tool_rounds
    api_params,             \* local of _generate_single_round_response
    messages,               \* local of _handle_tool_execution
    response,               \* the response being processed
    blk,                    \* index of the content block the tool loop is at
    tool_results,           \* local of the tool loop in progress
    requests,               \* every client.messages.create call, in order
    responses,              \* every response the service returned, in order
    executions,             \* every tool_manager.execute_tool call, in order
    outcome,                \* "running", "returned" or "raised"
    returned,               \* the value returned (optional text)
    raised,                 \* the exception that left generate_response
    base_params,            \* self.base_params of the AIGenerator instance
    last_sources,           \* the executor's latest source citations
    manager_calls,          \* the operations invoked on tool_manager, in order
    parked,                 \* a second call on the same instance, not running now
    active,                 \* which of the two calls the variables above describe
    round_context,          \* local of _execute_tool_rounds
    synthesis_turn          \* local synthesis_context of _synthesize_final_response

args == <<query, conversation_history, tools, tool_manager, max_tool_rounds,
          enable_sequential>>
locals == <<system_content, current_messages, round_results, current_round,
            api_params, messages, response, blk, tool_results>>
logs == <<requests, responses, executions>>
result == <<outcome, returned, raised>>
contexts == <<round_context, synthesis_turn>>
executor == <<last_sources, manager_calls>>
sched == <<parked, active>>
vars == <<args, pc, path, locals, logs, result, base_params, contexts, executor,
          sched>>

----------------------------------------------------------------------------
(* Bounds of the model *)

\* largest max_tool_rounds a call is given
MaxRounds == 2

----------------------------------------------------------------------------
(* Values *)

Max(a, b) == IF a >= b THEN a ELSE b
Min(a, b) == IF a <= b THEN a ELSE b
Take(s, n) == SubSeq(s, 1, Min(n, Len(s)))
Last(s, n) == SubSeq(s, Max(1, Len(s) - n + 1), Len(s))

NoneText == [some |-> FALSE, val |-> <<>>]
SomeText(t) == [some |-> TRUE, val |-> t]
NoneList == [some |-> FALSE, val |-> <<>>]
SomeList(l) == [some |-> TRUE, val |-> l]
\* Python truthiness of an optional string or list: None and empty are false
Truthy(o) == o.some /\ o.val # <<>>

SYSTEM_PROMPT == <<"SYSTEM_PROMPT">>

\* the value __init__ gives self.base_params
BaseParams == [model |-> "model", temperature |-> 0, max_tokens |-> 800]

\* the tool schemas a caller passes
ToolSchemas == << [name |-> "search_course_content"],
                  [name |-> "get_course_outline"] >>

\* content blocks of a response
TextBlock(t) ==
    [type |-> "text", text |-> t, id |-> "", name |-> "", input |-> ""]
ToolUseBlock(i, n, a) ==
    [type |-> "tool_use", text |-> <<>>, id |-> i, name |-> n, input |-> a]

ToolId(k, j) == "toolu_" \o ToString(k) \o "_" \o ToString(j)

\* the contents the service may answer the k-th request with: nothing, a text,
\* an empty text, one tool use, a text and a tool use, two identical tool uses
Contents(k) ==
    LET T == TextBlock(<<"answer", ToString(k)>>)
        E == TextBlock(<<>>)
        S(j) == ToolUseBlock(ToolId(k, j), "search_course_content", "query=ml")
        O(j) == ToolUseBlock(ToolId(k, j), "get_course_outline", "course_name=X")
    IN  { <<>>, <<T>>, <<E>>, <<S(1)>>, <<T, O(2)>>, <<S(1), S(2)>> }

StopReasons == {"tool_use", "end_turn"}

Responses(k) ==
    { [stop_reason |-> s, content |-> c] : s \in StopReasons, c \in Contents(k) }

NoResponse == [stop_reason |-> "", content |-> <<>>]

\* what tool_manager.execute_tool may do: return a text or raise
ToolOutputs == { <<"r", "e", "s", "u", "l", "t">>,
                 <<"Tool '", "x", "' not found">> }
ToolErrors == { <<"b", "o", "o", "m">> }

NoException == [type |-> "", msg |-> <<>>]
APIError(k) == [type |-> "APIError", msg |-> <<"API Error ", ToString(k)>>]
ToolException(m) == [type |-> "Exception", msg |-> m]
IndexError == [type |-> "IndexError", msg |-> <<"list index out of range">>]
AttributeError == [type |-> "AttributeError", msg |-> <<"text">>]

NoParams ==
    [model |-> "", temperature |-> 0, max_tokens |-> 0, messages |-> <<>>,
     system |-> <<>>, tools |-> NoneList, tool_choice |-> ""]

Queries == { <<"q", "u", "e", "r", "y">> }
Histories == { NoneText, SomeText(<<>>), SomeText(<<"h", "i", "s", "t">>) }
ToolLists == { NoneList, SomeList(<<>>), SomeList(ToolSchemas) }
MaxToolRoundsChoices == (-1)..MaxRounds

----------------------------------------------------------------------------
(* Pure helpers of AIGenerator *)

\* str.join
RECURSIVE Join(_, _)
Join(parts, sep) ==
    IF parts = <<>> THEN <<>>
    ELSE IF Len(parts) = 1 THEN parts[1]
    ELSE parts[1] \o <<sep>> \o Join(Tail(parts), sep)

\* number of most recent results a round context shows
ContextWindow == 3
\* characters of a result's content a round context shows
ContextPreviewLen == 200
\* characters of a result's content the synthesis digest shows
SynthesisPreviewLen == 150

\* a system content that leaves the history out
SystemContent_DropsHistory(history) == SYSTEM_PROMPT

\* a system content that tests the history against None only
SystemContent_BlockForEmpty(history) ==
    IF history.some
    THEN SYSTEM_PROMPT \o <<"\n\nPrevious conversation:\n">> \o history.val
    ELSE SYSTEM_PROMPT

\* system content shared by all requests of a call
SystemContent(history) ==
    IF Truthy(history)
    THEN SYSTEM_PROMPT \o <<"\n\nPrevious conversation:\n">> \o history.val
    ELSE SYSTEM_PROMPT

\* a round context that picks the marker by the round number
build_round_context_ByRound(original_query, results, round) ==
    IF round = 1
    THEN <<"Round ", ToString(round), ": Initial analysis of query.">>
    ELSE LET shown == SubSeq(results, Max(1, Len(results) - ContextWindow + 1),
                             Len(results))
             line(i) == <<"- Tool ", ToString(i), ": ", shown[i].tool_name, " -> ">>
                        \o Take(shown[i].content, ContextPreviewLen) \o <<"...">>
             parts == << <<"Round ", ToString(round),
                           ": Previous tool results available:">> >>
                      \o [i \in 1..Len(shown) |-> line(i)]
                      \o << <<"Use this information to decide if you need additional tool calls or can provide a complete answer.">> >>
         IN  Join(parts, "\n")

\* a round context that shows the first results instead of the latest
build_round_context_Oldest(original_query, results, round) ==
    IF results = <<>>
    THEN <<"Round ", ToString(round), ": Initial analysis of query.">>
    ELSE LET shown == Take(results, ContextWindow)
             line(i) == <<"- Tool ", ToString(i), ": ", shown[i].tool_name, " -> ">>
                        \o Take(shown[i].content, ContextPreviewLen) \o <<"...">>
             parts == << <<"Round ", ToString(round),
                           ": Previous tool results available:">> >>
                      \o [i \in 1..Len(shown) |-> line(i)]
                      \o << <<"Use this information to decide if you need additional tool calls or can provide a complete answer.">> >>
         IN  Join(parts, "\n")

\* _build_round_context ("->" stands for the arrow character of the source)
build_round_context(original_query, results, round) ==
    IF results = <<>>
    THEN <<"Round ", ToString(round), ": Initial analysis of query.">>
    ELSE LET shown == Last(results, ContextWindow)
             line(i) == <<"- Tool ", ToString(i), ": ", shown[i].tool_name, " -> ">>
                        \o Take(shown[i].content, ContextPreviewLen) \o <<"...">>
             parts == << <<"Round ", ToString(round),
                           ": Previous tool results available:">> >>
                      \o [i \in 1..Len(shown) |-> line(i)]
                      \o << <<"Use this information to decide if you need additional tool calls or can provide a complete answer.">> >>
         IN  Join(parts, "\n")

RoundLine(round, round_tools) ==
    <<"Round ", ToString(round), ": ">> \o Join(round_tools, ", ")

\* the loop of _format_round_results, from its i-th iteration on
RECURSIVE FormatLoop(_, _, _, _, _)
FormatLoop(results, i, formatted, round, round_tools) ==
    IF i > Len(results)
    THEN IF round_tools # <<>>
         THEN Append(formatted, RoundLine(round, round_tools))
         ELSE formatted
    ELSE LET r == results[i]
             flush == r.round # round
             formatted1 == IF flush /\ round_tools # <<>>
                           THEN Append(formatted, RoundLine(round, round_tools))
                           ELSE formatted
             round1 == IF flush THEN r.round ELSE round
             tools1 == IF flush THEN <<>> ELSE round_tools
             entry == <<r.tool_name, " -> ">>
                      \o Take(r.content, SynthesisPreviewLen) \o <<"...">>
         IN  FormatLoop(results, i + 1, formatted1, round1, Append(tools1, entry))

\* a digest that starts a new line for every result
format_round_results_Ungrouped(results) ==
    IF results = <<>> THEN <<"No tool results available.">>
    ELSE Join([i \in 1..Len(results) |->
                 RoundLine(results[i].round,
                           << <<results[i].tool_name, " -> ">>
                              \o Take(results[i].content, SynthesisPreviewLen)
                              \o <<"...">> >>)],
              "\n")

\* _format_round_results
format_round_results(results) ==
    IF results = <<>> THEN <<"No tool results available.">>
    ELSE Join(FormatLoop(results, 1, <<>>, 1, <<>>), "\n")

\* a synthesis prompt that, like the round context, digests the latest results
synthesis_context_Latest(results) ==
    <<"\nAll tool rounds completed. Synthesize the information to answer the original query.\n\nTool Results Summary:\n">>
    \o format_round_results(SubSeq(results,
                                   Max(1, Len(results) - ContextWindow + 1),
                                   Len(results)))
    \o <<"\n\nProvide a comprehensive answer to the original query using all gathered information.\n">>

\* the synthesis prompt of _synthesize_final_response
synthesis_context(results) ==
    <<"\nAll tool rounds completed. Synthesize the information to answer the original query.\n\nTool Results Summary:\n">>
    \o format_round_results(results)
    \o <<"\n\nProvide a comprehensive answer to the original query using all gathered information.\n">>

\* an entry that loses the identifier of its block
ResultEntry_FixedId(id, content) ==
    [type |-> "tool_result", tool_use_id |-> "tool_use_123", content |-> content]

\* the tool_result entry of a reply turn
ResultEntry(id, content) ==
    [type |-> "tool_result", tool_use_id |-> id, content |-> content]

\* a result that is flagged when the returned text reads like an error
ToolResultOk_FlagsErrorText(block, content, round) ==
    [type |-> "tool_result", tool_use_id |-> block.id, content |-> content,
     tool_name |-> block.name, round |-> round,
     parameters |-> [some |-> TRUE, val |-> block.input],
     error |-> (content # <<>> /\ content[1] = "Tool '")]

\* the ToolResult dicts _execute_round_tools builds
ToolResultOk(block, content, round) ==
    [type |-> "tool_result", tool_use_id |-> block.id, content |-> content,
     tool_name |-> block.name, round |-> round,
     parameters |-> [some |-> TRUE, val |-> block.input], error |-> FALSE]

\* an error result that carries the exception's text alone
ToolResultError_Bare(block, msg, round) ==
    [type |-> "tool_result", tool_use_id |-> block.id, content |-> msg,
     tool_name |-> block.name, round |-> round,
     parameters |-> [some |-> FALSE, val |-> ""], error |-> TRUE]

\* the ToolResult dict of the except branch of _execute_round_tools
ToolResultError(block, msg, round) ==
    [type |-> "tool_result", tool_use_id |-> block.id,
     content |-> <<"Tool execution failed: ">> \o msg,
     tool_name |-> block.name, round |-> round,
     parameters |-> [some |-> FALSE, val |-> ""], error |-> TRUE]

\* one tool_manager.execute_tool call, as logged
Execution(block, round, failed, out) ==
    [name |-> block.name, input |-> block.input, id |-> block.id,
     round |-> round, raised |-> failed, output |-> out]

\* the outcomes of evaluating response.content[0].text: an empty content list
\* raises IndexError; a tool-use block either has no text attribute (the SDK's
\* block type: AttributeError) or has text None (duck-typed block objects)
ContentText(r) ==
    IF r.content = <<>>
    THEN { [outcome |-> "raised", returned |-> NoneText, raised |-> IndexError] }
    ELSE IF r.content[1].type = "text"
    THEN { [outcome |-> "returned", returned |-> SomeText(r.content[1].text),
            raised |-> NoException] }
    ELSE { [outcome |-> "raised", returned |-> NoneText, raised |-> AttributeError],
           [outcome |-> "returned", returned |-> NoneText, raised |-> NoException] }

----------------------------------------------------------------------------
(* The call *)

\* a call of generate_response that has not started: its arguments, and its
\* locals, logs and result as they are on entry
CallState(q, h, t, tm, mtr, es) ==
    [query |-> q, conversation_history |-> h, tools |-> t, tool_manager |-> tm,
     max_tool_rounds |-> mtr, enable_sequential |-> es,
     pc |-> "generate_response", path |-> "none", system_content |-> <<>>,
     current_messages |-> <<>>, round_results |-> <<>>, current_round |-> 0,
     api_params |-> NoParams, messages |-> <<>>, response |-> NoResponse,
     blk |-> 0, tool_results |-> <<>>, requests |-> <<>>, responses |-> <<>>,
     executions |-> <<>>, outcome |-> "running", returned |-> NoneText,
     raised |-> NoException, round_context |-> <<>>, synthesis_turn |-> <<>>]

\* no second call: the instance serves one call
NoCall == CallState(<<>>, NoneText, NoneList, FALSE, 0, FALSE)

Init ==
    /\ query \in Queries
    /\ conversation_history \in Histories
    /\ tools \in ToolLists
    /\ tool_manager \in BOOLEAN      \* TRUE: a tool manager object is passed
    /\ max_tool_rounds \in MaxToolRoundsChoices
    /\ enable_sequential \in BOOLEAN
    /\ pc = "generate_response"
    /\ path = "none"
    /\ system_content = <<>>
    /\ current_messages = <<>>
    /\ round_results = <<>>
    /\ current_round = 0
    /\ api_params = NoParams
    /\ messages = <<>>
    /\ response = NoResponse
    /\ blk = 0
    /\ tool_results = <<>>
    /\ requests = <<>>
    /\ responses = <<>>
    /\ executions = <<>>
    /\ outcome = "running"
    /\ returned = NoneText
    /\ raised = NoException
    /\ base_params = BaseParams
    /\ last_sources = <<>>
    /\ manager_calls = <<>>
    /\ parked = NoCall
    /\ active = 1
    /\ round_context = <<>>
    /\ synthesis_turn = <<>>

\* the 'tools' and 'tool_choice' a request dict takes over from
\* {**self.base_params, ...} when it sets neither key itself
SpreadTools ==
    IF "tools" \in DOMAIN base_params THEN base_params.tools ELSE NoneList
SpreadToolChoice ==
    IF "tool_choice" \in DOMAIN base_params THEN base_params.tool_choice ELSE ""

\* a request dict that is self.base_params itself, updated in place
AfterSpread_Aliased(params) == params

\* self.base_params after {**self.base_params, ...} has built a request dict:
\* the spread copies, the instance's dict is left as it was
AfterSpread(params) == base_params

\* a routing that takes max_tool_rounds = 1 for a multi-round budget
UseSequential_FromOneRound ==
    enable_sequential /\ Truthy(tools) /\ tool_manager /\ max_tool_rounds >= 1

\* the routing condition of generate_response
UseSequential ==
    enable_sequential /\ Truthy(tools) /\ tool_manager /\ max_tool_rounds > 1

\* a round request that offers only the first of the caller's schemas
RoundParams_FirstSchema ==
    [model |-> base_params.model, temperature |-> base_params.temperature,
     max_tokens |-> base_params.max_tokens,
     messages |-> current_messages,
     system |-> system_content \o <<"\n\n">>
                \o build_round_context(query, round_results, current_round),
     tools |-> SomeList(Take(tools.val, 1)), tool_choice |-> "auto"]

\* the request parameters of a round of _execute_tool_rounds
RoundParams ==
    [model |-> base_params.model, temperature |-> base_params.temperature,
     max_tokens |-> base_params.max_tokens,
     messages |-> current_messages,
     system |-> system_content \o <<"\n\n">>
                \o build_round_context(query, round_results, current_round),
     tools |-> tools, tool_choice |-> "auto"]

\* a synthesis request that still offers the tools
SynthesisParams_WithTools ==
    [model |-> base_params.model, temperature |-> base_params.temperature,
     max_tokens |-> base_params.max_tokens,
     messages |-> Append(current_messages,
                         [role |-> "user",
                          content |-> synthesis_context(round_results)]),
     system |-> system_content,
     tools |-> tools, tool_choice |-> "auto"]

\* the request parameters of _synthesize_final_response
SynthesisParams ==
    [model |-> base_params.model, temperature |-> base_params.temperature,
     max_tokens |-> base_params.max_tokens,
     messages |-> Append(current_messages,
                         [role |-> "user",
                          content |-> synthesis_context(round_results)]),
     system |-> system_content,
     tools |-> SpreadTools, tool_choice |-> SpreadToolChoice]

\* the request parameters of _generate_single_round_response
SingleRoundParams ==
    [model |-> base_params.model, temperature |-> base_params.temperature,
     max_tokens |-> base_params.max_tokens,
     messages |-> << [role |-> "user", content |-> query] >>,
     system |-> SystemContent(conversation_history),
     tools |-> IF Truthy(tools) THEN tools ELSE SpreadTools,
     tool_choice |-> IF Truthy(tools) THEN "auto" ELSE SpreadToolChoice]

\* a follow-up that, like the sequential path, always adds a reply turn
FollowUpMessages_AlwaysReply ==
    Append(messages, [role |-> "user", content |-> tool_results])

\* the messages of the follow-up request of _handle_tool_execution
FollowUpMessages ==
    IF tool_results # <<>>
    THEN Append(messages, [role |-> "user", content |-> tool_results])
    ELSE messages

\* a follow-up request built from the first request's parameters, tools included
FollowUpParams_KeepsTools ==
    [model |-> base_params.model, temperature |-> base_params.temperature,
     max_tokens |-> base_params.max_tokens,
     messages |-> FollowUpMessages,
     system |-> api_params.system,
     tools |-> api_params.tools, tool_choice |-> api_params.tool_choice]

\* the request parameters of the follow-up request of _handle_tool_execution
FollowUpParams ==
    [model |-> base_params.model, temperature |-> base_params.temperature,
     max_tokens |-> base_params.max_tokens,
     messages |-> FollowUpMessages,
     system |-> api_params.system,
     tools |-> SpreadTools, tool_choice |-> SpreadToolChoice]

\* a loop that forgets to advance the counter
NextRound_Repeats(round) == round

\* current_round += 1
NextRound(round) == round + 1

\* a loop that runs one round too many
RoundsRemain_OffByOne == current_round <= max_tool_rounds + 1

\* the loop condition of _execute_tool_rounds
RoundsRemain == current_round <= max_tool_rounds

\* a test that forgets the stop reason
LegacyRunsTools_IgnoresStop(r) == tool_manager

\* the legacy path's test for running the tools of the first response
LegacyRunsTools(r) == r.stop_reason = "tool_use" /\ tool_manager

\* a test that looks for tool-use blocks instead of the stop reason
RoundRunsTools_AnyToolBlock(r) ==
    \E i \in 1..Len(r.content) : r.content[i].type = "tool_use"

\* the sequential path's test for running the tools of a response
RoundRunsTools(r) == r.stop_reason = "tool_use"

\* leaving generate_response with an exception
Raise(e) ==
    /\ outcome' = "raised"
    /\ raised' = e
    /\ returned' = NoneText
    /\ pc' = "done"

\* return response.content[0].text
ReturnText(r) ==
    \E o \in ContentText(r) :
        /\ outcome' = o.outcome
        /\ returned' = o.returned
        /\ raised' = o.raised
        /\ pc' = "done"

\* a caller-side handler that turns the failure into an answer
ModelRaises_Swallowed(k) ==
    /\ outcome' = "returned"
    /\ returned' = SomeText(<<"Sorry, something went wrong.">>)
    /\ raised' = NoException
    /\ pc' = "done"

\* client.messages.create raises: nothing on the way to the caller catches it
ModelRaises(k) == Raise(APIError(k))

\* generate_response up to the first request of the path it chooses
generate_response ==
    /\ pc = "generate_response"
    /\ IF UseSequential
       THEN /\ path' = "sequential"
            /\ pc' = "round_start"
            /\ round_results' = <<>>
            /\ current_round' = 1
            /\ system_content' = SystemContent(conversation_history)
            /\ current_messages' = << [role |-> "user", content |-> query] >>
       ELSE /\ path' = "legacy"
            /\ pc' = "single_round"
            /\ UNCHANGED <<round_results, current_round, system_content,
                           current_messages>>
    /\ UNCHANGED <<args, api_params, messages, response, blk, tool_results,
                   logs, result, base_params, contexts,
                   executor, sched>>

\* _generate_single_round_response: the request and the test of its response
SingleRoundRequest ==
    /\ pc = "single_round"
    /\ api_params' = SingleRoundParams
    /\ requests' = Append(requests, SingleRoundParams)
    /\ \/ /\ ModelRaises(Len(requests) + 1)
          /\ UNCHANGED <<responses, response, messages, blk, tool_results>>
       \/ \E r \in Responses(Len(requests) + 1) :
            /\ responses' = Append(responses, r)
            /\ response' = r
            /\ IF LegacyRunsTools(r)
               THEN /\ pc' = "handle_tool_execution"
                    /\ messages' = Append(SingleRoundParams.messages,
                                          [role |-> "assistant",
                                           content |-> r.content])
                    /\ blk' = 1
                    /\ tool_results' = <<>>
                    /\ UNCHANGED result
               ELSE /\ ReturnText(r)
                    /\ UNCHANGED <<messages, blk, tool_results>>
    /\ base_params' = AfterSpread(SingleRoundParams)
    /\ UNCHANGED <<executor, sched>>
    /\ UNCHANGED <<args, path, system_content, current_messages, round_results,
                   current_round, executions, contexts>>

\* a loop that skips a request it has already executed with the same arguments
ExecutesBlock_Dedupe(block) ==
    /\ block.type = "tool_use"
    /\ ~\E i \in 1..Len(executions) :
          executions[i].name = block.name /\ executions[i].input = block.input

\* the tool loops' test of a content block
ExecutesBlock(block) == block.type = "tool_use"

\* a controller that clears the sources once a tool has run
ExecutorOps_AlsoResets(run) == <<"execute_tool", "reset_sources">>

\* the operations the controller invokes on tool_manager for one tool-use
\* block: tool_manager.execute_tool(name, **input), nothing else
ExecutorOps(run) == <<"execute_tool">>

\* what one tool execution leaves in the executor's latest sources: a
\* retrieval that returns a result records its citations; an unknown tool and
\* a raising tool record none
SourcesAfter(sources, run) ==
    IF ~run.raised /\ run.output # <<"Tool '", "x", "' not found">>
    THEN <<"source of ", run.id>>
    ELSE sources

\* the executor's latest sources after the operations ops of one invocation
RECURSIVE ExecutorEffect(_, _, _)
ExecutorEffect(sources, ops, run) ==
    IF ops = <<>> THEN sources
    ELSE ExecutorEffect(
             CASE ops[1] = "execute_tool" -> SourcesAfter(sources, run)
               [] ops[1] = "reset_sources" -> <<>>
               [] OTHER -> sources,
             Tail(ops), run)

\* the executor after a step of a tool loop: invoked when the step executed a
\* block, untouched when it skipped one
ManagerCalled ==
    IF executions' # executions
    THEN LET run == executions'[Len(executions')]
         IN  /\ manager_calls' = manager_calls \o ExecutorOps(run)
             /\ last_sources' = ExecutorEffect(last_sources, ExecutorOps(run), run)
    ELSE UNCHANGED executor

\* a legacy loop guarded like the sequential one
LegacyToolFails_Caught(block, e) ==
    /\ executions' = Append(executions, Execution(block, 1, TRUE, e))
    /\ tool_results' = Append(tool_results,
                              ResultEntry(block.id, <<"Tool execution failed: ">> \o e))
    /\ blk' = blk + 1
    /\ UNCHANGED <<pc, result>>

\* _handle_tool_execution: execute_tool raises inside the unguarded loop
LegacyToolFails(block, e) ==
    /\ executions' = Append(executions, Execution(block, 1, TRUE, e))
    /\ Raise(ToolException(e))
    /\ UNCHANGED <<tool_results, blk>>

\* _handle_tool_execution: one iteration of the loop over the content blocks
HandleToolStep ==
    /\ pc = "handle_tool_execution"
    /\ blk <= Len(response.content)
    /\ LET block == response.content[blk] IN
       IF ExecutesBlock(block)
       THEN \/ \E out \in ToolOutputs :
                 /\ executions' = Append(executions, Execution(block, 1, FALSE, out))
                 /\ tool_results' = Append(tool_results, ResultEntry(block.id, out))
                 /\ blk' = blk + 1
                 /\ UNCHANGED <<pc, result>>
            \/ \E e \in ToolErrors : LegacyToolFails(block, e)
       ELSE /\ blk' = blk + 1
            /\ UNCHANGED <<executions, tool_results, pc, result>>
    /\ UNCHANGED <<args, path, system_content, current_messages, round_results,
                   current_round, api_params, messages, response, requests,
                   responses, base_params, contexts>>
    /\ ManagerCalled
    /\ UNCHANGED sched

\* _handle_tool_execution: the follow-up request
FollowUpRequest ==
    /\ pc = "handle_tool_execution"
    /\ blk > Len(response.content)
    /\ messages' = FollowUpMessages
    /\ requests' = Append(requests, FollowUpParams)
    /\ \/ /\ ModelRaises(Len(requests) + 1)
          /\ UNCHANGED <<responses, response>>
       \/ \E r \in Responses(Len(requests) + 1) :
            /\ responses' = Append(responses, r)
            /\ response' = r
            /\ ReturnText(r)
    /\ base_params' = AfterSpread(FollowUpParams)
    /\ UNCHANGED <<executor, sched>>
    /\ UNCHANGED <<args, path, system_content, current_messages, round_results,
                   current_round, api_params, blk, tool_results, executions,
                   contexts>>

\* _execute_tool_rounds: the request of a round and the test of its response
RoundRequest ==
    /\ pc = "round_start"
    /\ RoundsRemain
    /\ requests' = Append(requests, RoundParams)
    /\ \/ /\ ModelRaises(Len(requests) + 1)
          /\ UNCHANGED <<responses, response, blk, tool_results>>
       \/ \E r \in Responses(Len(requests) + 1) :
            /\ responses' = Append(responses, r)
            /\ response' = r
            /\ IF RoundRunsTools(r)
               THEN /\ pc' = "round_tools"
                    /\ blk' = 1
                    /\ tool_results' = <<>>
                    /\ UNCHANGED result
               ELSE /\ ReturnText(r)
                    /\ UNCHANGED <<blk, tool_results>>
    /\ round_context' = build_round_context(query, round_results, current_round)
    /\ base_params' = AfterSpread(RoundParams)
    /\ UNCHANGED <<executor, sched>>
    /\ UNCHANGED <<args, path, system_content, current_messages, round_results,
                   current_round, api_params, messages, executions,
                   synthesis_turn>>

\* a round that, like the legacy path, adds no reply turn for no results
RoundTurns_SkipsEmptyReply(resp, results) ==
    << [role |-> "assistant", content |-> resp.content] >>
    \o (IF results = <<>> THEN <<>>
        ELSE << [role |-> "user",
                 content |-> [i \in 1..Len(results) |->
                                ResultEntry(results[i].tool_use_id,
                                            results[i].content)]] >>)

\* the two turns a tool round appends to current_messages
RoundTurns(resp, results) ==
    << [role |-> "assistant", content |-> resp.content],
       [role |-> "user",
        content |-> [i \in 1..Len(results) |->
                       ResultEntry(results[i].tool_use_id, results[i].content)]] >>

\* a round that moves on after its first block
RoundToolsDone_AfterFirst == blk > 1

\* the for loop of _execute_round_tools has run through response.content
RoundToolsDone == blk > Len(response.content)

\* a sequential loop without its try block
RoundToolFails_Propagates(block, e) ==
    /\ executions' = Append(executions, Execution(block, current_round, TRUE, e))
    /\ Raise(ToolException(e))
    /\ UNCHANGED <<tool_results, blk>>

\* _execute_round_tools: execute_tool raises inside the try block
RoundToolFails(block, e) ==
    /\ executions' = Append(executions, Execution(block, current_round, TRUE, e))
    /\ tool_results' = Append(tool_results,
                              ToolResultError(block, e, current_round))
    /\ blk' = blk + 1
    /\ UNCHANGED <<pc, result>>

\* _execute_round_tools: one iteration of the loop over the content blocks
RoundToolStep ==
    /\ pc = "round_tools"
    /\ blk <= Len(response.content)
    /\ LET block == response.content[blk] IN
       IF ExecutesBlock(block)
       THEN \/ \E out \in ToolOutputs :
                 /\ executions' = Append(executions,
                                         Execution(block, current_round, FALSE, out))
                 /\ tool_results' = Append(tool_results,
                                           ToolResultOk(block, out, current_round))
                 /\ blk' = blk + 1
                 /\ UNCHANGED <<pc, result>>
            \/ \E e \in ToolErrors : RoundToolFails(block, e)
       ELSE /\ blk' = blk + 1
            /\ UNCHANGED <<executions, tool_results, pc, result>>
    /\ UNCHANGED <<args, path, system_content, current_messages,
                   round_results, current_round, api_params, messages, response,
                   requests, responses, base_params, contexts>>
    /\ ManagerCalled
    /\ UNCHANGED sched

\* _execute_tool_rounds: the end of a tool round
RoundEnd ==
    /\ pc = "round_tools"
    /\ RoundToolsDone
    /\ round_results' = round_results \o tool_results
    /\ current_messages' = current_messages \o RoundTurns(response, tool_results)
    /\ current_round' = NextRound(current_round)
    /\ pc' = "round_start"
    /\ UNCHANGED <<args, path, system_content, api_params, messages, response,
                   blk, tool_results, logs, result, base_params, contexts,
                   executor, sched>>

\* _synthesize_final_response, entered when the loop of _execute_tool_rounds ends
SynthesisRequest ==
    /\ pc = "round_start"
    /\ ~RoundsRemain
    /\ requests' = Append(requests, SynthesisParams)
    /\ \/ /\ ModelRaises(Len(requests) + 1)
          /\ UNCHANGED <<responses, response>>
       \/ \E r \in Responses(Len(requests) + 1) :
            /\ responses' = Append(responses, r)
            /\ response' = r
            /\ ReturnText(r)
    /\ synthesis_turn' = synthesis_context(round_results)
    /\ base_params' = AfterSpread(SynthesisParams)
    /\ UNCHANGED <<executor, sched>>
    /\ UNCHANGED <<args, path, system_content, current_messages, round_results,
                   current_round, api_params, messages, blk, tool_results,
                   executions, round_context>>

Next ==
    \/ generate_response
    \/ SingleRoundRequest
    \/ HandleToolStep
    \/ FollowUpRequest
    \/ RoundRequest
    \/ RoundToolStep
    \/ RoundEnd
    \/ SynthesisRequest

Spec == Init /\ [][Next]_vars

\* the positions of a call
PcValues ==
    { "generate_response", "single_round", "handle_tool_execution",
      "round_start", "round_tools", "done" }

\* a call that has not returned or raised moves on: to another position, or
\* to the next block of the response whose tools it is running
CallRuns ==
    /\ pc # "done"
    /\ pc' \in PcValues
    /\ blk' \in 0..(blk + 1)
    /\ <<pc', blk'>> # <<pc, blk>>

\* the same program when every model request and every tool execution
\* eventually returns or raises: the synchronous call, while it has not
\* finished, eventually moves on
FairSpec == Spec /\ WF_<<pc, blk>>(CallRuns)

----------------------------------------------------------------------------
(* The two digests on their own: _build_round_context and                  *)
(* _format_round_results applied to the result lists a sequential call can *)
(* have accumulated, with contents shorter and longer than the previews.   *)

\* most results an accumulated list holds
MaxResults == 4

\* a text of n distinguishable characters
Chars(n) == [i \in 1..n |-> ToString(i)]

\* the content lengths tried: short, just over the synthesis preview, just
\* over the round-context preview
DigestContents ==
    { Chars(2), Chars(SynthesisPreviewLen + 1), Chars(ContextPreviewLen + 1) }

\* the results one round can contribute
DigestResults ==
    { ToolResultOk(ToolUseBlock("toolu", "search_course_content", "query=ml"),
                   c, r) : c \in DigestContents, r \in 1..MaxRounds }
    \cup
    { ToolResultError(ToolUseBlock("toolu", "get_course_outline", "course_name=X"),
                      Chars(2), r) : r \in 1..MaxRounds }

\* the accumulated lists: results in execution order, so round tags never fall
ResultLists ==
    UNION { { l \in [1..n -> DigestResults] :
                \A i \in 1..(n - 1) : l[i].round <= l[i + 1].round } :
            n \in 0..MaxResults }

\* the round of the latest result, 0 when there is none
LastRound(results) ==
    IF results = <<>> THEN 0 ELSE results[Len(results)].round

\* the state at the loop test of a later iteration: the results of the
\* completed rounds are accumulated and the counter is past their rounds
DigestInit ==
    /\ query \in Queries
    /\ conversation_history = NoneText
    /\ tools = SomeList(ToolSchemas)
    /\ tool_manager = TRUE
    /\ max_tool_rounds = MaxRounds
    /\ enable_sequential = TRUE
    /\ pc = "digest"
    /\ path = "sequential"
    /\ system_content = SystemContent(conversation_history)
    /\ current_messages = <<>>
    /\ round_results \in ResultLists
    /\ current_round \in (LastRound(round_results) + 1)..(MaxRounds + 1)
    /\ api_params = NoParams
    /\ messages = <<>>
    /\ response = NoResponse
    /\ blk = 0
    /\ tool_results = <<>>
    /\ requests = <<>>
    /\ responses = <<>>
    /\ executions = <<>>
    /\ outcome = "running"
    /\ returned = NoneText
    /\ raised = NoException
    /\ base_params = BaseParams
    /\ last_sources = <<>>
    /\ manager_calls = <<>>
    /\ parked = NoCall
    /\ active = 1
    /\ round_context = <<>>
    /\ synthesis_turn = <<>>

\* the loop body's _build_round_context applied to the accumulated results
BuildRoundContext ==
    /\ pc = "digest"
    /\ current_round <= max_tool_rounds
    /\ round_context' = build_round_context(query, round_results, current_round)
    /\ pc' = "digest_context"
    /\ UNCHANGED <<args, path, locals, logs, result, base_params, synthesis_turn,
                   executor, sched>>

\* after the loop, _format_round_results applied to them inside the
\* synthesis prompt
FormatRoundResults ==
    /\ pc = "digest"
    /\ current_round > max_tool_rounds
    /\ synthesis_turn' = synthesis_context(round_results)
    /\ pc' = "digest_done"
    /\ UNCHANGED <<args, path, locals, logs, result, base_params, round_context,
                   executor, sched>>

DigestNext == BuildRoundContext \/ FormatRoundResults

DigestSpec == DigestInit /\ [][DigestNext]_vars

-----------------------------------------------------------------------------
(* Two calls of generate_response on one AIGenerator instance.  Each call   *)
(* has its own arguments and locals; self.base_params and the tool manager  *)
(* are the instance's and are shared.  The variables describe the call that *)
(* is running, parked holds the other one, and Switch hands the processor   *)
(* over between two steps.                                                   *)

\* the default of the max_tool_rounds parameter of generate_response
DefaultMaxToolRounds == 2

\* the query of the second call
OtherQuery == <<"o", "t", "h", "e", "r">>

\* the state of the running call
Running ==
    [query |-> query, conversation_history |-> conversation_history,
     tools |-> tools, tool_manager |-> tool_manager,
     max_tool_rounds |-> max_tool_rounds,
     enable_sequential |-> enable_sequential, pc |-> pc, path |-> path,
     system_content |-> system_content,
     current_messages |-> current_messages, round_results |-> round_results,
     current_round |-> current_round, api_params |-> api_params,
     messages |-> messages, response |-> response, blk |-> blk,
     tool_results |-> tool_results, requests |-> requests,
     responses |-> responses, executions |-> executions, outcome |-> outcome,
     returned |-> returned, raised |-> raised,
     round_context |-> round_context, synthesis_turn |-> synthesis_turn]

\* the running call starts as c
Starts(c) ==
    /\ query = c.query
    /\ conversation_history = c.conversation_history
    /\ tools = c.tools
    /\ tool_manager = c.tool_manager
    /\ max_tool_rounds = c.max_tool_rounds
    /\ enable_sequential = c.enable_sequential
    /\ pc = c.pc
    /\ path = c.path
    /\ system_content = c.system_content
    /\ current_messages = c.current_messages
    /\ round_results = c.round_results
    /\ current_round = c.current_round
    /\ api_params = c.api_params
    /\ messages = c.messages
    /\ response = c.response
    /\ blk = c.blk
    /\ tool_results = c.tool_results
    /\ requests = c.requests
    /\ responses = c.responses
    /\ executions = c.executions
    /\ outcome = c.outcome
    /\ returned = c.returned
    /\ raised = c.raised
    /\ round_context = c.round_context
    /\ synthesis_turn = c.synthesis_turn

\* a controller that collects the tool results on the instance: the call that
\* gets the processor goes on with the results the other call left there
Resume_SharedResults(c) ==
    /\ query' = c.query
    /\ conversation_history' = c.conversation_history
    /\ tools' = c.tools
    /\ tool_manager' = c.tool_manager
    /\ max_tool_rounds' = c.max_tool_rounds
    /\ enable_sequential' = c.enable_sequential
    /\ pc' = c.pc
    /\ path' = c.path
    /\ system_content' = c.system_content
    /\ current_messages' = c.current_messages
    /\ round_results' = c.round_results
    /\ current_round' = c.current_round
    /\ api_params' = c.api_params
    /\ messages' = c.messages
    /\ response' = c.response
    /\ blk' = c.blk
    /\ UNCHANGED tool_results
    /\ requests' = c.requests
    /\ responses' = c.responses
    /\ executions' = c.executions
    /\ outcome' = c.outcome
    /\ returned' = c.returned
    /\ raised' = c.raised
    /\ round_context' = c.round_context
    /\ synthesis_turn' = c.synthesis_turn

\* the running call continues as c
Resume(c) ==
    /\ query' = c.query
    /\ conversation_history' = c.conversation_history
    /\ tools' = c.tools
    /\ tool_manager' = c.tool_manager
    /\ max_tool_rounds' = c.max_tool_rounds
    /\ enable_sequential' = c.enable_sequential
    /\ pc' = c.pc
    /\ path' = c.path
    /\ system_content' = c.system_content
    /\ current_messages' = c.current_messages
    /\ round_results' = c.round_results
    /\ current_round' = c.current_round
    /\ api_params' = c.api_params
    /\ messages' = c.messages
    /\ response' = c.response
    /\ blk' = c.blk
    /\ tool_results' = c.tool_results
    /\ requests' = c.requests
    /\ responses' = c.responses
    /\ executions' = c.executions
    /\ outcome' = c.outcome
    /\ returned' = c.returned
    /\ raised' = c.raised
    /\ round_context' = c.round_context
    /\ synthesis_turn' = c.synthesis_turn

\* the pairs of calls that run concurrently: a sequential call next to a
\* legacy call without tools, and two legacy calls with tools
ConcPairs ==
    { <<CallState(<<"q", "u", "e", "r", "y">>, SomeText(<<"h", "i", "s", "t">>),
                  SomeList(ToolSchemas), TRUE, DefaultMaxToolRounds, TRUE),
        CallState(OtherQuery, NoneText, NoneList, FALSE,
                  DefaultMaxToolRounds, TRUE)>>,
      <<CallState(<<"q", "u", "e", "r", "y">>, SomeText(<<"h", "i", "s", "t">>),
                  SomeList(ToolSchemas), TRUE, DefaultMaxToolRounds, FALSE),
        CallState(OtherQuery, NoneText, SomeList(Take(ToolSchemas, 1)), TRUE,
                  DefaultMaxToolRounds, FALSE)>> }

ConcInit ==
    /\ \E pair \in ConcPairs :
          /\ Starts(pair[1])
          /\ parked = pair[2]
    /\ active = 1
    /\ base_params = BaseParams
    /\ last_sources = <<>>
    /\ manager_calls = <<>>

\* the other call gets the processor; the instance's state is left as it is
Switch ==
    /\ parked # NoCall
    /\ Resume(parked)
    /\ parked' = Running
    /\ active' = 3 - active
    /\ UNCHANGED <<base_params, executor>>

ConcNext == Next \/ Switch

ConcSpec == ConcInit /\ [][ConcNext]_vars

\* the same call twice on one instance, once with enable_sequential off and
\* once with it on: the legacy call runs to its end, then the sequential one
EquivPairs ==
    { <<CallState(<<"q", "u", "e", "r", "y">>, h, SomeList(ToolSchemas), TRUE,
                  DefaultMaxToolRounds, FALSE),
        CallState(<<"q", "u", "e", "r", "y">>, h, SomeList(ToolSchemas), TRUE,
                  DefaultMaxToolRounds, TRUE)>> :
        h \in {SomeText(<<"h", "i", "s", "t">>)} }

EquivInit ==
    /\ \E pair \in EquivPairs :
          /\ Starts(pair[1])
          /\ parked = pair[2]
    /\ active = 1
    /\ base_params = BaseParams
    /\ last_sources = <<>>
    /\ manager_calls = <<>>

\* the first call is over and the second one is made
Handover ==
    /\ pc = "done"
    /\ active = 1
    /\ Switch

EquivNext == Next \/ Handover

EquivSpec == EquivInit /\ [][EquivNext]_vars

----------------------------------------------------------------------------
(* Observations the properties are stated over *)

Done == pc = "done"
NumToolRequests == Cardinality({i \in 1..Len(requests) : requests[i].tools.some})
NumPlainRequests == Cardinality({i \in 1..Len(requests) : ~requests[i].tools.some})
IsToolUse(b) == b.type = "tool_use"
\* the identifiers of the tool-use blocks of a response, in listed order
BlockIds(r) ==
    LET uses == SelectSeq(r.content, IsToolUse)
    IN  [i \in 1..Len(uses) |-> uses[i].id]
\* the identifiers of the tool-use blocks of responses 1..n, round by round
RECURSIVE RequestedIds(_)
RequestedIds(n) ==
    IF n = 0 THEN <<>> ELSE RequestedIds(n - 1) \o BlockIds(responses[n])
ExecutedIds == [i \in 1..Len(executions) |-> executions[i].id]
\* r's first content block is a text block and the returned value is its text
ReturnedTextOf(r) ==
    /\ r.content # <<>>
    /\ returned = IF r.content[1].type = "text"
                  THEN SomeText(r.content[1].text)
                  ELSE NoneText
AllToolUse(n) ==
    /\ Len(responses) >= n
    /\ \A i \in 1..n : responses[i].stop_reason = "tool_use"
\* the number of tools-enabled responses of a sequential call that stopped for
\* tool use (they are its first responses)
ToolRounds ==
    Cardinality({i \in 1..Min(Len(responses), max_tool_rounds) :
                    responses[i].stop_reason = "tool_use"})
NoToolRaised == \A i \in 1..Len(executions) : ~executions[i].raised

----------------------------------------------------------------------------
(* Properties *)

\* C1 as stated: at every point of every call, the requests carrying tool
\* schemas number at most max_tool_rounds and those carrying none at most one
\* (read for max_tool_rounds >= 0, where the bound can be met at all).
C1_BudgetAsStated ==
    max_tool_rounds >= 0 =>
        /\ NumToolRequests <= max_tool_rounds
        /\ NumPlainRequests <= 1

\* C1, amended: at every point of every call, the requests carrying tool
\* schemas number at most max(1, max_tool_rounds), and besides the first
\* request at most one request without tool schemas is issued.
C1_RequestBudget ==
    /\ NumToolRequests <= Max(1, max_tool_rounds)
    /\ Cardinality({i \in 2..Len(requests) : ~requests[i].tools.some}) <= 1
    /\ Len(requests) <= Max(1, max_tool_rounds) + 1

C1_Witness ==
    /\ Done
    /\ path = "sequential"
    /\ NumToolRequests = max_tool_rounds
    /\ NumPlainRequests = 1

\* C2: a finished sequential call whose max_tool_rounds = N tools-enabled
\* responses all stopped for tool use has issued exactly N + 1 requests, has
\* executed exactly the tool-use blocks of those N responses, its last request
\* carries no tool schemas, and what it returns is the text of response N + 1.
C2_MaxRoundsReached ==
    (Done /\ path = "sequential" /\ AllToolUse(max_tool_rounds)) =>
        /\ Len(requests) = max_tool_rounds + 1
        /\ NumToolRequests = max_tool_rounds
        /\ ExecutedIds = RequestedIds(max_tool_rounds)
        /\ ~requests[max_tool_rounds + 1].tools.some
        /\ requests[max_tool_rounds + 1].tool_choice = ""
        /\ outcome = "returned" =>
             /\ Len(responses) = max_tool_rounds + 1
             /\ ReturnedTextOf(responses[max_tool_rounds + 1])

C2_Witness ==
    /\ Done
    /\ path = "sequential"
    /\ AllToolUse(max_tool_rounds)
    /\ Len(executions) > max_tool_rounds
    /\ outcome = "returned"
    /\ returned = SomeText(<<"answer", ToString(max_tool_rounds + 1)>>)

\* C3: in the sequential path, once the k-th response (k <= max_tool_rounds)
\* is the first whose stop reason is not tool_use, the call is over with
\* exactly k requests, all tools-enabled, the tools of responses 1..k-1 and no
\* others executed, and what it returns is the text of the k-th response.
C3_DirectAnswer ==
    \A k \in 1..max_tool_rounds :
        (/\ path = "sequential"
         /\ AllToolUse(k - 1)
         /\ Len(responses) >= k
         /\ responses[k].stop_reason # "tool_use") =>
            /\ Done
            /\ Len(requests) = k
            /\ Len(responses) = k
            /\ NumToolRequests = k
            /\ ExecutedIds = RequestedIds(k - 1)
            /\ outcome = "returned" => ReturnedTextOf(responses[k])

C3_Witness ==
    /\ path = "sequential"
    /\ Len(responses) = 2
    /\ responses[1].stop_reason = "tool_use"
    /\ responses[2].stop_reason = "end_turn"
    /\ Len(executions) = 2
    /\ outcome = "returned"
    /\ returned = SomeText(<<"answer", "2">>)

\* C4: on either path, once the first response has a stop reason other than
\* tool_use the call is over with exactly one request and no tool execution,
\* and what it returns is that response's text.
C4_NoToolUseFirst ==
    (Len(responses) >= 1 /\ responses[1].stop_reason # "tool_use") =>
        /\ Done
        /\ Len(requests) = 1
        /\ Len(responses) = 1
        /\ executions = <<>>
        /\ outcome = "returned" => ReturnedTextOf(responses[1])

C4_Witness ==
    /\ path = "legacy"
    /\ tool_manager
    /\ Len(responses) = 1
    /\ responses[1].stop_reason = "end_turn"
    /\ Len(responses[1].content) = 2
    /\ outcome = "returned"
    /\ returned = SomeText(<<"answer", "1">>)

\* C5: whenever generate_response returns normally, the value returned is a
\* non-empty text.
C5_NonEmptyAnswer ==
    outcome = "returned" => (returned.some /\ returned.val # <<>>)

\* C6: generate_response runs the sequential path (its first request carries
\* a round context) exactly when enable_sequential holds, tools is present and
\* non-empty, a tool manager is present and max_tool_rounds > 1; otherwise it
\* runs the legacy path (its first request carries the bare system content).
C6_Routing ==
    LET wanted == /\ enable_sequential
                  /\ tools.some /\ Len(tools.val) > 0
                  /\ tool_manager
                  /\ max_tool_rounds > 1
    IN  /\ path # "none" => (path = "sequential" <=> wanted)
        /\ path # "none" => (path = "legacy" <=> ~wanted)
        /\ Len(requests) >= 1 =>
             IF wanted
             THEN requests[1].system
                    = SystemContent(conversation_history)
                      \o <<"\n\n", "Round ", "1", ": Initial analysis of query.">>
             ELSE requests[1].system = SystemContent(conversation_history)

C6_Witness ==
    /\ path = "legacy"
    /\ enable_sequential /\ Truthy(tools) /\ tool_manager
    /\ max_tool_rounds = 1
    /\ Len(requests) = 2

\* C7: in the sequential path an exception of the executor never leaves the
\* call; when the tool loop of a round ends, every tool-use block of the
\* response has been executed and has one ToolResult, in order, error-flagged
\* exactly when its execution raised; and a finished call has issued the
\* request that follows every round in which a tool ran.
C7_ToolFailureTolerated ==
    path = "sequential" =>
        /\ raised.type # "Exception"
        /\ (pc = "round_tools" /\ blk > Len(response.content)) =>
             LET n == Len(tool_results)
                 first == Len(executions) - n
             IN  /\ [i \in 1..n |-> tool_results[i].tool_use_id] = BlockIds(response)
                 /\ first >= 0
                 /\ \A i \in 1..n :
                      /\ executions[first + i].id = tool_results[i].tool_use_id
                      /\ executions[first + i].round = current_round
                      /\ tool_results[i].error = executions[first + i].raised
        /\ \A i \in 1..Len(executions) :
             /\ executions[i].round <= Len(responses)
             /\ Done => Len(requests) > executions[i].round
        /\ Done => ExecutedIds = RequestedIds(ToolRounds)

C7_Witness ==
    /\ path = "sequential"
    /\ Done
    /\ outcome = "returned"
    /\ Len(requests) = max_tool_rounds + 1
    /\ Len(executions) >= 2
    /\ executions[1].raised /\ executions[1].round = 1
    /\ ~executions[2].raised /\ executions[2].round = 1

\* C8: in the legacy path an exception of the executor leaves
\* generate_response as it is: the execution that raised is the last one, no
\* later block is executed and no follow-up request is issued.
C8_LegacyToolFailurePropagates ==
    \A i \in 1..Len(executions) :
        (path = "legacy" /\ executions[i].raised) =>
            /\ i = Len(executions)
            /\ Done
            /\ outcome = "raised"
            /\ raised = ToolException(executions[i].output)
            /\ Len(requests) = 1

C8_Witness ==
    /\ path = "legacy"
    /\ Len(responses) = 1
    /\ Len(BlockIds(responses[1])) = 2
    /\ Len(executions) = 1
    /\ executions[1].raised
    /\ outcome = "raised"

\* a model request that raised: it is logged and has no response
RequestFailed == Len(requests) > Len(responses)

\* C9: on either path, a model request that raises ends the call with that
\* request's exception, and afterwards no request is issued and no tool runs.
C9_ModelFailurePropagates ==
    /\ [](RequestFailed =>
            /\ Done
            /\ outcome = "raised"
            /\ raised = APIError(Len(requests))
            /\ Len(requests) = Len(responses) + 1)
    /\ [][RequestFailed => UNCHANGED <<requests, executions, result>>]_vars

C9_Witness ==
    /\ RequestFailed
    /\ path = "sequential"
    /\ Len(requests) = max_tool_rounds + 1
    /\ Len(executions) >= 1
    /\ raised = APIError(max_tool_rounds + 1)

Call(b) == [id |-> b.id, name |-> b.name, input |-> b.input]
\* the calls the tool-use blocks of a response ask for, in listed order
BlockCalls(r) ==
    LET uses == SelectSeq(r.content, IsToolUse)
    IN  [i \in 1..Len(uses) |-> Call(uses[i])]
\* the calls asked for by responses 1..n, round by round
RECURSIVE RequestedCalls(_)
RequestedCalls(n) ==
    IF n = 0 THEN <<>> ELSE RequestedCalls(n - 1) \o BlockCalls(responses[n])
ExecutedCalls == [i \in 1..Len(executions) |-> Call(executions[i])]
\* the number of tool_use responses among those a path looks at for tools:
\* the round responses of the sequential path, the first response of the legacy
PathToolRounds ==
    IF path = "sequential" THEN ToolRounds
    ELSE IF Len(responses) >= 1 /\ responses[1].stop_reason = "tool_use"
    THEN 1 ELSE 0
IsPrefix(s, t) == Len(s) <= Len(t) /\ s = SubSeq(t, 1, Len(s))

\* C11 as stated: when a call with an executor is over, the executor
\* invocations are exactly the tool-use blocks of its tool_use responses, round
\* by round and in listed order, each once, name and arguments unchanged.
C11_AllBlocksExecutedAsStated ==
    (Done /\ tool_manager) => ExecutedCalls = RequestedCalls(PathToolRounds)

\* C11, amended: the executor invocations are at every point a prefix of the
\* tool-use blocks of the tool_use responses (round by round, listed order,
\* name and arguments unchanged, identical requests not merged); when a round
\* of the sequential path ends, and when a legacy call with an executor ends
\* without a tool exception, they are all of them.  In the legacy path a tool
\* exception ends the sequence at the block that raised.
C11_ExecutionOrder ==
    /\ IsPrefix(ExecutedCalls, RequestedCalls(PathToolRounds))
    /\ (path = "sequential" /\ pc \in {"round_start", "done"}) =>
         ExecutedCalls = RequestedCalls(PathToolRounds)
    /\ (path = "legacy" /\ Done /\ tool_manager /\ NoToolRaised) =>
         ExecutedCalls = RequestedCalls(PathToolRounds)
    /\ (path = "legacy" /\ ~tool_manager) => executions = <<>>

C11_Witness ==
    /\ path = "sequential"
    /\ Done
    /\ Len(executions) = 3
    /\ executions[1].name = "get_course_outline"
    /\ executions[2].name = executions[3].name
    /\ executions[2].input = executions[3].input
    /\ executions[2].id # executions[3].id

\* the execution of the block with identifier id (identifiers are unique)
ExecutionOf(id) ==
    executions[CHOOSE i \in 1..Len(executions) : executions[i].id = id]
\* the content the reply turn is to carry for an executed block
ReplyContent(e) ==
    IF e.raised THEN <<"Tool execution failed: ">> \o e.output ELSE e.output
\* the reply turn owed to response r once all its blocks are executed
ExpectedReply(r) ==
    LET ids == BlockIds(r)
    IN  [role |-> "user",
         content |-> [i \in 1..Len(ids) |->
                        [type |-> "tool_result", tool_use_id |-> ids[i],
                         content |-> ReplyContent(ExecutionOf(ids[i]))]]]

\* C12: in every request issued after a tool round, the reply turn that
\* follows the model's tool-use turn holds one tool_result entry per tool-use
\* block of that response, in order, with the block's identifier and with what
\* the executor returned for it (the error description when it raised in the
\* sequential path); the legacy path builds no reply turn for a response
\* without tool-use blocks.
C12_ReplyTurn ==
    /\ path = "sequential" =>
         \A k \in 2..Len(requests) : \A j \in 1..(k - 1) :
             /\ Len(requests[k].messages) >= 2 * j + 1
             /\ requests[k].messages[2 * j]
                  = [role |-> "assistant", content |-> responses[j].content]
             /\ requests[k].messages[2 * j + 1] = ExpectedReply(responses[j])
    /\ (path = "legacy" /\ Len(requests) = 2) =>
         /\ requests[2].messages[2]
              = [role |-> "assistant", content |-> responses[1].content]
         /\ IF BlockIds(responses[1]) # <<>>
            THEN /\ Len(requests[2].messages) = 3
                 /\ requests[2].messages[3] = ExpectedReply(responses[1])
            ELSE Len(requests[2].messages) = 2

C12_Witness ==
    /\ path = "sequential"
    /\ Len(requests) = 2
    /\ Len(executions) = 2
    /\ executions[1].raised /\ ~executions[2].raised
    /\ Len(requests[2].messages[3].content) = 2
    /\ requests[2].messages[3].content[2].content = <<"Tool '", "x", "' not found">>

HistoryLabel == "\n\nPrevious conversation:\n"
\* the positions of a text at which the piece p stands
Positions(text, p) == {i \in 1..Len(text) : text[i] = p}

\* C13: when a non-empty conversation history is given, the system content of
\* every request of the call starts with the static prompt, then the
\* 'Previous conversation:' label, then the history verbatim.
C13_HistoryInEveryRequest ==
    (conversation_history.some /\ Len(conversation_history.val) > 0) =>
        \A k \in 1..Len(requests) :
            LET sys == requests[k].system
                n == Len(SYSTEM_PROMPT)
                h == Len(conversation_history.val)
            IN  /\ Len(sys) >= n + 1 + h
                /\ SubSeq(sys, 1, n) = SYSTEM_PROMPT
                /\ sys[n + 1] = HistoryLabel
                /\ SubSeq(sys, n + 2, n + 1 + h) = conversation_history.val

C13_Witness ==
    /\ Truthy(conversation_history)
    /\ path = "sequential"
    /\ Len(requests) = max_tool_rounds + 1
    /\ Len(executions) >= 1

\* C14: when no conversation history is given (None or the empty string), the
\* system content of every request of the call starts with the static prompt
\* and holds no 'Previous conversation:' label anywhere.
C14_NoHistoryBlock ==
    (~conversation_history.some \/ Len(conversation_history.val) = 0) =>
        \A k \in 1..Len(requests) :
            /\ SubSeq(requests[k].system, 1, Len(SYSTEM_PROMPT)) = SYSTEM_PROMPT
            /\ Positions(requests[k].system, HistoryLabel) = {}

C14_Witness ==
    /\ conversation_history = SomeText(<<>>)
    /\ path = "sequential"
    /\ Len(requests) = max_tool_rounds + 1
    /\ Len(executions) >= 1

\* the pieces of a text between the separator pieces sep (str.split)
RECURSIVE Split(_, _)
Split(text, sep) ==
    LET at == Positions(text, sep)
    IN  IF at = {} THEN <<text>>
        ELSE LET i == CHOOSE j \in at : \A k \in at : j <= k
             IN  <<SubSeq(text, 1, i - 1)>>
                 \o Split(SubSeq(text, i + 1, Len(text)), sep)
RECURSIVE Flatten(_)
Flatten(ss) == IF ss = <<>> THEN <<>> ELSE ss[1] \o Flatten(Tail(ss))
\* is p the first n characters of content, or all of it when it is shorter
IsPreview(p, content, n) ==
    /\ Len(p) = (IF Len(content) <= n THEN Len(content) ELSE n)
    /\ \A i \in 1..Len(p) : p[i] = content[i]
\* the 'tool -> preview...' entries of the synthesis digest, line after line
DigestEntries ==
    LET digest == SubSeq(synthesis_turn, 2, Len(synthesis_turn) - 1)
        lines == Split(digest, "\n")
    IN  Flatten([i \in 1..Len(lines) |->
                   Split(SubSeq(lines[i], 4, Len(lines[i])), ", ")])

\* C15: a round context built from a non-empty list of n results has one
\* line for each of the min(3, n) latest results, in accumulation order, whose
\* preview is the first 200 characters of the result's content (all of it
\* when shorter); each entry of the synthesis digest previews the first 150.
C15_DigestWindows ==
    LET n == Len(round_results)
        m == IF n <= 3 THEN n ELSE 3
        lines == Split(round_context, "\n")
    IN  /\ (pc = "digest_context" /\ n > 0) =>
             /\ Len(lines) = m + 2
             /\ \A i \in 1..m :
                  LET res == round_results[n - m + i]
                      line == lines[i + 1]
                  IN  /\ Len(line) >= 6
                      /\ SubSeq(line, 1, 5)
                           = <<"- Tool ", ToString(i), ": ", res.tool_name, " -> ">>
                      /\ line[Len(line)] = "..."
                      /\ IsPreview(SubSeq(line, 6, Len(line) - 1), res.content, 200)
        /\ (pc = "digest_done" /\ n > 0) =>
             /\ Len(DigestEntries) = n
             /\ \A i \in 1..n :
                  LET res == round_results[i]
                      e == DigestEntries[i]
                  IN  /\ Len(e) >= 3
                      /\ SubSeq(e, 1, 2) = <<res.tool_name, " -> ">>
                      /\ e[Len(e)] = "..."
                      /\ IsPreview(SubSeq(e, 3, Len(e) - 1), res.content, 150)

C15_Witness ==
    /\ pc = "digest_context"
    /\ Len(round_results) = 4
    /\ Len(round_results[1].content) = 201
    /\ Len(round_results[2].content) = 201
    /\ Len(round_results[3].content) = 151
    /\ Len(round_results[4].content) = 2
    /\ Len(Split(round_context, "\n")) = 5

\* the safety half of C16: request counts, and a counter that numbers the
\* rounds without repeating one
C16_Bounds ==
    /\ path = "sequential" => Len(requests) <= max_tool_rounds + 1
    /\ path = "legacy" => Len(requests) <= 2
    /\ (path = "sequential" /\ pc = "round_start") =>
          Len(requests) = current_round - 1
    /\ (path = "sequential" /\ pc = "round_tools") =>
          Len(requests) = current_round
C16_RoundAdvances ==
    /\ current_round' >= current_round
    /\ (pc = "round_tools" /\ pc' = "round_start") =>
          current_round' = current_round + 1
    /\ (pc = "round_start" /\ pc' = "round_tools") =>
          /\ Len(requests') = current_round
          /\ requests'[current_round].system
               = system_content \o <<"\n\n">> \o round_context'
          /\ round_context'[2] = ToString(current_round)

\* C16 as stated: every call eventually ends having returned a text or
\* raised, within max_tool_rounds + 1 requests (sequential) or 2 (legacy),
\* the round counter rising by one on every tool round.
C16_TerminatesWithText ==
    /\ <>(Done /\ (outcome = "raised" \/ (outcome = "returned" /\ returned.some)))
    /\ []C16_Bounds
    /\ [][C16_RoundAdvances]_vars

\* what holds of C16: every call eventually ends, having returned the text
\* attribute of the last response's first block (a text, or None) or raised,
\* within max_tool_rounds + 1 requests (sequential) or 2 (legacy); a call that
\* has not ended always has a next step; the round counter rises by one on
\* every tool round and each round is requested once.
C16_Terminates ==
    /\ <>(Done /\ outcome \in {"returned", "raised"})
    /\ [](Done \/ ENABLED Next)
    /\ []C16_Bounds
    /\ [][C16_RoundAdvances]_vars

C16_Witness ==
    /\ Done
    /\ path = "sequential"
    /\ outcome = "returned"
    /\ returned.some
    /\ current_round = max_tool_rounds + 1
    /\ Len(requests) = max_tool_rounds + 1
    /\ Len(executions) >= max_tool_rounds

\* C17: every request issued by either path carries the configured model
\* name, temperature 0 and max_tokens 800, and the controller's base_params
\* are at every point of every call, returned or raised, what the constructor
\* set.
C17_BaseParamsKept ==
    /\ base_params = BaseParams
    /\ \A i \in 1..Len(requests) :
         /\ requests[i].model = "model"
         /\ requests[i].temperature = 0
         /\ requests[i].max_tokens = 800

C17_Witness ==
    /\ Done
    /\ path = "sequential"
    /\ outcome = "raised"
    /\ Len(requests) = max_tool_rounds + 1
    /\ Len(responses) = max_tool_rounds
    /\ base_params = BaseParams

\* the states of the sequential path's loop, read off the position
RoundState ==
    CASE pc = "round_start" /\ RoundsRemain -> "ROUND_START"
      [] pc = "round_start" /\ ~RoundsRemain -> "SYNTHESIZE"
      [] pc = "round_tools" /\ ~RoundToolsDone -> "TOOLS_REQUESTED"
      [] pc = "round_tools" /\ RoundToolsDone -> "TOOLS_EXECUTED"
      [] OTHER -> "TERMINAL"
\* the tool-use blocks of the k-th response
NumToolUse(k) ==
    Cardinality({i \in 1..Len(responses[k].content) :
                   IsToolUse(responses[k].content[i])})
\* the executions logged for round k
NumExecuted(k) ==
    Cardinality({i \in 1..Len(executions) : executions[i].round = k})
C18_Step ==
    path = "sequential" =>
      \* one thing at a time: a step is one model request or one execution
      /\ Len(requests') + Len(executions')
           <= Len(requests) + Len(executions) + 1
      /\ IsPrefix(requests, requests') /\ IsPrefix(executions, executions')
      \* the transitions of the loop
      /\ <<RoundState, RoundState'>> \in
           { <<"ROUND_START", "TOOLS_REQUESTED">>, <<"ROUND_START", "TOOLS_EXECUTED">>,
             <<"ROUND_START", "TERMINAL">>,
             <<"TOOLS_REQUESTED", "TOOLS_REQUESTED">>,
             <<"TOOLS_REQUESTED", "TOOLS_EXECUTED">>,
             <<"TOOLS_EXECUTED", "ROUND_START">>, <<"TOOLS_EXECUTED", "SYNTHESIZE">>,
             <<"SYNTHESIZE", "TERMINAL">> }
      \* a request is issued at the start of a round or as the synthesis, once
      \* every tool-use block of the round before has been executed
      /\ Len(requests') > Len(requests) =>
           /\ RoundState \in {"ROUND_START", "SYNTHESIZE"}
           /\ requests'[Len(requests')].tools.some = (RoundState = "ROUND_START")
           /\ \A k \in 1..Len(requests) :
                /\ responses[k].stop_reason = "tool_use"
                /\ NumExecuted(k) = NumToolUse(k)
      \* a tool runs inside the round whose response asked for it
      /\ Len(executions') > Len(executions) =>
           /\ RoundState = "TOOLS_REQUESTED"
           /\ executions'[Len(executions')].round = Len(requests)
           /\ Len(responses) = Len(requests)
           /\ responses[Len(requests)].stop_reason = "tool_use"
C18_Order ==
    path = "sequential" =>
      \* the synthesis request is the last one
      /\ \A i \in 1..(Len(requests) - 1) : requests[i].tools.some
      /\ \A i \in 1..Len(requests) :
           ~requests[i].tools.some => i = max_tool_rounds + 1
      \* a direct answer is the last thing that happens
      /\ \A i \in 1..Len(responses) :
           responses[i].stop_reason # "tool_use" =>
             /\ Done
             /\ i = Len(requests)
             /\ \A j \in 1..Len(executions) : executions[j].round < i

\* C18: the sequential path moves only ROUND_START -> (TOOLS_REQUESTED ->
\* TOOLS_EXECUTED -> ROUND_START | SYNTHESIZE) | terminal; each step is one
\* model request or one tool execution; every tool-use block of round r is
\* executed before the next request; the synthesis request is tool-less and
\* last; nothing follows a direct answer.
C18_StateMachine == []C18_Order /\ [][C18_Step]_vars

C18_Witness ==
    /\ Done
    /\ path = "sequential"
    /\ max_tool_rounds = 2
    /\ Len(requests) = 3
    /\ ~requests[3].tools.some
    /\ NumExecuted(1) = 2
    /\ NumExecuted(2) = 1
    /\ outcome = "returned"

\* the ToolResults the sequential path holds: those of the finished rounds
\* and those of the round under way
Accumulated ==
    round_results \o (IF pc = "round_tools" THEN tool_results ELSE <<>>)

\* C19: every ToolResult of the sequential path, from a successful or a
\* failed execution, records the identifier, a content text, the tool name,
\* the round and the arguments of the tool-use block it answers.
C19_ResultRecordsCall ==
    path = "sequential" =>
      /\ Len(Accumulated) = Len(executions)
      /\ \A i \in 1..Len(Accumulated) :
           LET res == Accumulated[i]
               run == executions[i]
           IN  /\ res.tool_use_id = run.id
               /\ res.tool_name = run.name
               /\ res.round = run.round
               /\ res.content =
                    (IF run.raised THEN <<"Tool execution failed: ">> \o run.output
                     ELSE run.output)
               /\ res.parameters.some
               /\ res.parameters.val = run.input

\* the round context carried by the r-th request of the sequential path
ContextOf(r) ==
    SubSeq(requests[r].system, Len(system_content) + 2, Len(requests[r].system))
IsInitialMarker(ctx, r) ==
    ctx = <<"Round ", ToString(r), ": Initial analysis of query.">>
IsDigest(ctx, r) ==
    /\ Len(ctx) >= 5
    /\ SubSeq(ctx, 1, 4)
         = <<"Round ", ToString(r), ": Previous tool results available:", "\n">>
    /\ ctx[Len(ctx)] = "Use this information to decide if you need additional tool calls or can provide a complete answer."
\* the tools-enabled requests of the sequential path, numbered as issued
RoundRequests ==
    IF path = "sequential"
    THEN {r \in 1..Len(requests) : requests[r].tools.some}
    ELSE {}
\* the results accumulated when the r-th request is built
ResultsBefore(r) ==
    Cardinality({i \in 1..Len(executions) : executions[i].round < r})

\* C20 as stated: the round context of the r-th tools-enabled request is
\* labelled r; it is the initial-analysis marker for r = 1 and a digest
\* followed by the instruction for every r >= 2.
C20_DigestFromRoundTwo ==
    \A r \in RoundRequests :
        IF r = 1 THEN IsInitialMarker(ContextOf(r), r)
        ELSE IsDigest(ContextOf(r), r)

\* C20, amended: the round context of the r-th tools-enabled request is
\* labelled r; it is the initial-analysis marker when no tool result has been
\* accumulated yet (always for r = 1, and for r >= 2 when the earlier tool
\* rounds executed no tool), and otherwise a digest of prior results with one
\* line for each of the latest min(3, n) of them, followed by the instruction.
C20_RoundContext ==
    \A r \in RoundRequests :
        /\ ResultsBefore(1) = 0
        /\ IF ResultsBefore(r) = 0
           THEN IsInitialMarker(ContextOf(r), r)
           ELSE /\ IsDigest(ContextOf(r), r)
                /\ Len(Split(ContextOf(r), "\n"))
                     = Min(3, ResultsBefore(r)) + 2

C20_Witness ==
    /\ path = "sequential"
    /\ Len(requests) >= 2
    /\ requests[2].tools.some
    /\ ResultsBefore(2) = 2
    /\ IsInitialMarker(ContextOf(1), 1)
    /\ IsDigest(ContextOf(2), 2)

\* C21: in the sequential path the r-th tools-enabled request carries 2r - 1
\* turns, the first being the user turn with the query; the turns of request
\* r + 1 are those of request r, unchanged, followed by the model's tool-use
\* turn and one reply turn; the conversation kept between requests only grows.
C21_AppendOnly ==
    /\ \A r \in RoundRequests :
         /\ Len(requests[r].messages) = 2 * r - 1
         /\ requests[r].messages[1] = [role |-> "user", content |-> query]
         /\ (r + 1) \in RoundRequests =>
              /\ IsPrefix(requests[r].messages, requests[r + 1].messages)
              /\ Len(requests[r + 1].messages) = Len(requests[r].messages) + 2
              /\ requests[r + 1].messages[2 * r]
                   = [role |-> "assistant", content |-> responses[r].content]
              /\ requests[r + 1].messages[2 * r + 1] = ExpectedReply(responses[r])
    /\ (path = "sequential" /\ RoundRequests # {}) =>
         LET last == CHOOSE r \in RoundRequests : \A q \in RoundRequests : q <= r
         IN  /\ IsPrefix(requests[last].messages, current_messages)
             /\ Len(current_messages) \in {2 * last - 1, 2 * last + 1}

C21_Witness ==
    /\ path = "sequential"
    /\ RoundRequests = {1, 2}
    /\ Len(requests[2].messages) = 3
    /\ requests[2].messages[3].content = <<>>
    /\ responses[1].content # <<>>

\* the digest inside a synthesis prompt, and its entries line after line
DigestOf(text) == SubSeq(text, 2, Len(text) - 1)
EntriesOf(digest) ==
    LET lines == Split(digest, "\n")
    IN  Flatten([i \in 1..Len(lines) |->
                   Split(SubSeq(lines[i], 4, Len(lines[i])), ", ")])
\* the requests of the sequential path issued once the rounds are used up
SynthesisRequests ==
    IF path = "sequential"
    THEN {k \in 1..Len(requests) : k > max_tool_rounds}
    ELSE {}

\* C22: the synthesis request carries no tool schemas and no tool choice; its
\* turns are the conversation of all max_tool_rounds rounds followed by one
\* user turn whose text holds, between the synthesis instructions, the digest
\* with an entry for every accumulated result; its system content is the
\* static prompt plus history block, with no round context.
C22_SynthesisRequest ==
    \A k \in SynthesisRequests :
        LET req == requests[k]
            n == max_tool_rounds
            turn == req.messages[Len(req.messages)]
            digest == DigestOf(turn.content)
        IN  /\ k = n + 1
            /\ ~req.tools.some
            /\ req.tool_choice = ""
            /\ req.system = SystemContent(conversation_history)
            /\ Len(req.messages) = 2 * n + 2
            /\ SubSeq(req.messages, 1, 2 * n + 1)
                 = requests[n].messages
                   \o << [role |-> "assistant", content |-> responses[n].content],
                         ExpectedReply(responses[n]) >>
            /\ turn.role = "user"
            /\ turn.content[1] = "\nAll tool rounds completed. Synthesize the information to answer the original query.\n\nTool Results Summary:\n"
            /\ turn.content[Len(turn.content)] = "\n\nProvide a comprehensive answer to the original query using all gathered information.\n"
            /\ IF executions = <<>>
               THEN digest = <<"No tool results available.">>
               ELSE EntriesOf(digest)
                      = [i \in 1..Len(executions) |->
                           <<executions[i].name, " -> ">>
                           \o Take(ReplyContent(executions[i]), 150)
                           \o <<"...">>]

C22_Witness ==
    /\ Done
    /\ SynthesisRequests # {}
    /\ Len(executions) = 4
    /\ executions[1].raised
    /\ conversation_history.some
    /\ outcome = "returned"

\* the rounds that have a result, and the k-th of them in ascending order
RoundsOf(results) == {results[i].round : i \in 1..Len(results)}
KthRound(results, k) ==
    CHOOSE x \in RoundsOf(results) :
        Cardinality({y \in RoundsOf(results) : y < x}) = k - 1
\* the results of one round, in accumulation order
RECURSIVE ResultsOfRound(_, _)
ResultsOfRound(results, x) ==
    IF results = <<>> THEN <<>>
    ELSE (IF results[1].round = x THEN <<results[1]>> ELSE <<>>)
         \o ResultsOfRound(Tail(results), x)

\* C23: for the result list of a sequential run, _format_round_results gives
\* 'No tool results available.' for the empty list and otherwise one line
\* 'Round N: ...' per round that has a result, rounds ascending, each line
\* listing that round's results as 'tool -> preview...' in execution order, so
\* that every result stands in exactly one line.
C23_GroupedByRound ==
    pc = "digest_done" =>
      LET digest == DigestOf(synthesis_turn)
          lines == Split(digest, "\n")
      IN  IF round_results = <<>>
          THEN digest = <<"No tool results available.">>
          ELSE /\ Len(lines) = Cardinality(RoundsOf(round_results))
               /\ \A k \in 1..Len(lines) :
                    LET x == KthRound(round_results, k)
                        own == ResultsOfRound(round_results, x)
                        entries == Split(SubSeq(lines[k], 4, Len(lines[k])), ", ")
                    IN  /\ Len(lines[k]) > 3
                        /\ SubSeq(lines[k], 1, 3) = <<"Round ", ToString(x), ": ">>
                        /\ Len(entries) = Len(own)
                        /\ \A j \in 1..Len(own) :
                             entries[j] = <<own[j].tool_name, " -> ">>
                                          \o Take(own[j].content, 150)
                                          \o <<"...">>

C23_Witness ==
    /\ pc = "digest_done"
    /\ Len(round_results) = 4
    /\ round_results[1].round = 1 /\ round_results[2].round = 1
    /\ round_results[3].round = 2 /\ round_results[4].round = 2
    /\ round_results[2].error
    /\ Len(Split(DigestOf(synthesis_turn), "\n")) = 2

C23_WitnessEmpty ==
    /\ pc = "digest_done"
    /\ round_results = <<>>
    /\ DigestOf(synthesis_turn) = <<"No tool results available.">>

NotFoundText == <<"Tool '", "x", "' not found">>

\* C24: in the sequential path a ToolResult is error-flagged exactly when the
\* executor raised for that invocation; a text the executor returns, a
\* tool-not-found message included, is recorded unchanged as non-error
\* content, and the round goes on to its next block as after any result.
C24_ErrorFlag ==
    path = "sequential" =>
      /\ Len(Accumulated) = Len(executions)
      /\ \A i \in 1..Len(Accumulated) :
           /\ Accumulated[i].error = executions[i].raised
           /\ ~executions[i].raised =>
                Accumulated[i].content = executions[i].output
      /\ pc = "round_tools" =>
           /\ outcome = "running"
           /\ Len(tool_results)
                = Cardinality({j \in 1..(blk - 1) : IsToolUse(response.content[j])})

C24_Witness ==
    /\ path = "sequential"
    /\ Len(requests) = 2
    /\ Len(round_results) = 2
    /\ round_results[1].content = NotFoundText
    /\ ~round_results[1].error
    /\ round_results[2].error
    /\ executions[1].output = NotFoundText

\* the entries of the reply turn that request k carries for round k - 1
ReplyEntries(k) == requests[k].messages[2 * k - 1].content

\* C25: in the sequential path, when the executor raised for a tool-use
\* block of round r, request r + 1 (the next round's or the synthesis) is
\* issued and its reply turn for round r holds, under that block's
\* identifier, 'Tool execution failed: ' followed by the exception's text.
C25_FailureReported ==
    path = "sequential" =>
      \A i \in 1..Len(executions) :
          LET run == executions[i]
              k == run.round + 1
          IN  run.raised =>
                /\ (pc \in {"round_start", "round_tools"}) => outcome = "running"
                /\ (Done \/ current_round > run.round) =>
                     /\ Len(requests) >= k \/ pc = "round_start"
                /\ Len(requests) >= k =>
                     /\ Len(requests[k].messages) >= 2 * k - 1
                     /\ requests[k].messages[2 * k - 1].role = "user"
                     /\ \E j \in 1..Len(ReplyEntries(k)) :
                          /\ ReplyEntries(k)[j].tool_use_id = run.id
                          /\ ReplyEntries(k)[j].content
                               = <<"Tool execution failed: ">> \o run.output
                     /\ \A j \in 1..Len(ReplyEntries(k)) :
                          ReplyEntries(k)[j].tool_use_id = run.id =>
                            ReplyEntries(k)[j].content
                              = <<"Tool execution failed: ">> \o run.output

C25_Witness ==
    /\ path = "sequential"
    /\ Len(requests) = max_tool_rounds + 1
    /\ Len(executions) >= 1
    /\ executions[Len(executions)].raised
    /\ executions[Len(executions)].round = max_tool_rounds
    /\ ~requests[Len(requests)].tools.some

\* the follow-up request of a legacy call, when it has been issued
HasFollowUp == path = "legacy" /\ Len(requests) >= 2

\* C26 as stated: the follow-up request of the legacy path always carries
\* exactly three turns: the user query, the assistant turn with the model's
\* tool-use content, and one user turn with all tool results.
C26_AlwaysThreeTurns ==
    HasFollowUp =>
      /\ Len(requests[2].messages) = 3
      /\ requests[2].messages[1] = [role |-> "user", content |-> query]
      /\ requests[2].messages[2]
           = [role |-> "assistant", content |-> responses[1].content]
      /\ requests[2].messages[3].role = "user"

\* C26, amended: the follow-up request of the legacy path carries the user
\* query, then the assistant turn with the first response's content, then,
\* when that response held at least one tool-use block, one user turn with
\* the results of all its tool-use blocks in order: three turns.  When the
\* response held no tool-use block there is no third turn: two turns.
C26_FollowUpTurns ==
    HasFollowUp =>
      LET msgs == requests[2].messages
      IN  /\ Len(requests) = 2
          /\ msgs[1] = [role |-> "user", content |-> query]
          /\ msgs[2] = [role |-> "assistant", content |-> responses[1].content]
          /\ IF NumToolUse(1) > 0
             THEN /\ Len(msgs) = 3
                  /\ msgs[3].role = "user"
                  /\ Len(msgs[3].content) = NumToolUse(1)
                  /\ Len(executions) = NumToolUse(1)
                  /\ \A j \in 1..Len(executions) :
                       msgs[3].content[j]
                         = [type |-> "tool_result",
                            tool_use_id |-> executions[j].id,
                            content |-> executions[j].output]
             ELSE Len(msgs) = 2

C26_Witness ==
    /\ HasFollowUp
    /\ Done
    /\ Len(requests[2].messages) = 3
    /\ Len(requests[2].messages[3].content) = 2
    /\ outcome = "returned"

\* a legacy call whose first response stopped for tool use with no executor
NoExecutorToolUse ==
    /\ path = "legacy"
    /\ ~tool_manager
    /\ Len(responses) >= 1
    /\ responses[1].stop_reason = "tool_use"
\* the legacy call then issues one request and executes nothing
C27_OneRequestNoTool ==
    NoExecutorToolUse => (Done /\ Len(requests) = 1 /\ executions = <<>>)

\* C27: in the legacy path, when the first response stopped for tool use and
\* no executor is present, exactly one request is issued, no tool is executed
\* and the call returns the first response's text.
C27_NoExecutorReturnsText ==
    NoExecutorToolUse =>
      /\ Done
      /\ Len(requests) = 1
      /\ executions = <<>>
      /\ outcome = "returned"
      /\ returned.some
      /\ \E i \in 1..Len(responses[1].content) :
           /\ responses[1].content[i].type = "text"
           /\ returned.val = responses[1].content[i].text

\* what every request of a call carries for tools and tool choice
C28_Requests ==
    \A i \in 1..Len(requests) :
        IF requests[i].tools.some
        THEN /\ requests[i].tools = tools
             /\ requests[i].tools.val # <<>>
             /\ requests[i].tool_choice = "auto"
        ELSE requests[i].tool_choice = ""

\* C28: every tools-enabled request of a call carries the caller's schema
\* list as given, the same in every round, with tool choice 'auto'; every
\* request without schemas carries no tool choice; no step changes the
\* caller's list.
C28_SchemasUnchanged ==
    /\ []C28_Requests
    /\ [][tools' = tools]_vars

C28_Witness ==
    /\ Done
    /\ path = "sequential"
    /\ Len(requests) = 3
    /\ requests[1].tools = SomeList(ToolSchemas)
    /\ requests[2].tools = SomeList(ToolSchemas)
    /\ requests[2].tool_choice = "auto"
    /\ ~requests[3].tools.some
    /\ requests[3].tool_choice = ""

\* the sources the executions of a call have written, one after another
RECURSIVE SourcesWritten(_, _)
SourcesWritten(sources, runs) ==
    IF runs = <<>> THEN sources
    ELSE SourcesWritten(SourcesAfter(sources, runs[1]), Tail(runs))

\* C29: on either path the controller invokes nothing on the executor but
\* tool execution, once per executed block, and the executor's latest sources
\* are at every point, the return to the caller included, what the tool
\* executions wrote: never cleared by the controller.
C29_SourcesLeftAlone ==
    /\ manager_calls = [i \in 1..Len(executions) |-> "execute_tool"]
    /\ last_sources = SourcesWritten(<<>>, executions)

C29_Witness ==
    /\ Done
    /\ path = "sequential"
    /\ outcome = "returned"
    /\ Len(requests) = max_tool_rounds + 1
    /\ Len(executions) >= 2
    /\ ~executions[1].raised
    /\ executions[Len(executions)].raised
    /\ last_sources # <<>>

\* the executions of call c in tool round j, in order
RunsOfRound(c, j) == SelectSeq(c.executions, LAMBDA e : e.round = j)
\* the result the sequential path records for execution e
OwnResult(e) ==
    IF e.raised THEN ToolResultError(e, e.output, e.round)
    ELSE ToolResultOk(e, e.output, e.round)
\* the results call c has accumulated from its own executions before round k
OwnResultsBefore(c, k) ==
    LET runs == SelectSeq(c.executions, LAMBDA e : e.round < k)
    IN  [i \in 1..Len(runs) |-> OwnResult(runs[i])]
\* the reply turn made of the outcomes of c's own executions in round j
OwnReply(c, j) ==
    LET runs == RunsOfRound(c, j)
    IN  [role |-> "user",
         content |-> [i \in 1..Len(runs) |->
                        ResultEntry(runs[i].id, ReplyContent(runs[i]))]]
\* the conversation of call c after j tool rounds, from c's own query, the
\* responses c received and the outcomes of c's own executions
RECURSIVE OwnTurns(_, _)
OwnTurns(c, j) ==
    IF j = 0
    THEN << [role |-> "user", content |-> c.query] >>
    ELSE OwnTurns(c, j - 1)
         \o << [role |-> "assistant", content |-> c.responses[j].content],
               OwnReply(c, j) >>
\* the k-th request a call with c's arguments issues when it runs alone on a
\* fresh instance and receives the responses and tool outcomes c received
AloneRequest(c, k) ==
    LET own == SystemContent(c.conversation_history)
        request(turns, system, schemas, choice) ==
            [model |-> BaseParams.model, temperature |-> BaseParams.temperature,
             max_tokens |-> BaseParams.max_tokens, messages |-> turns,
             system |-> system, tools |-> schemas, tool_choice |-> choice]
    IN  IF c.path = "sequential"
        THEN IF k <= c.max_tool_rounds
             THEN request(OwnTurns(c, k - 1),
                          own \o <<"\n\n">>
                          \o build_round_context(c.query, OwnResultsBefore(c, k), k),
                          c.tools, "auto")
             ELSE request(Append(OwnTurns(c, c.max_tool_rounds),
                                 [role |-> "user",
                                  content |-> synthesis_context(
                                      OwnResultsBefore(c, c.max_tool_rounds + 1))]),
                          own, NoneList, "")
        ELSE IF k = 1
             THEN request(<< [role |-> "user", content |-> c.query] >>, own,
                          IF Truthy(c.tools) THEN c.tools ELSE NoneList,
                          IF Truthy(c.tools) THEN "auto" ELSE "")
             ELSE request(<< [role |-> "user", content |-> c.query],
                             [role |-> "assistant",
                              content |-> c.responses[1].content] >>
                          \o (IF c.executions = <<>> THEN <<>>
                              ELSE << OwnReply(c, 1) >>),
                          own, NoneList, "")
\* how a call with c's arguments ends when it runs alone and receives what c
\* received: with the failure of its last request, with the failure of the
\* legacy path's last tool execution, or with the text of its last response
AloneResult(c) ==
    LET n == Len(c.requests)
        ended == [outcome |-> c.outcome, returned |-> c.returned,
                  raised |-> c.raised]
    IN  IF n > Len(c.responses)
        THEN ended = [outcome |-> "raised", returned |-> NoneText,
                      raised |-> APIError(n)]
        ELSE IF c.path = "legacy" /\ c.executions # <<>>
                /\ c.executions[Len(c.executions)].raised
        THEN ended = [outcome |-> "raised", returned |-> NoneText,
                      raised |-> ToolException(c.executions[Len(c.executions)].output)]
        ELSE ended \in ContentText(c.responses[Len(c.responses)])
\* call c has gone the way it goes alone
RunsAsAlone(c) ==
    /\ c.path # "none" =>
         (c.path = "sequential"
            <=> (c.enable_sequential /\ Truthy(c.tools) /\ c.tool_manager
                 /\ c.max_tool_rounds > 1))
    /\ \A k \in 1..Len(c.requests) : c.requests[k] = AloneRequest(c, k)
    /\ \A j \in 1..Len(c.executions) :
         \E b \in 1..Len(c.responses[c.executions[j].round].content) :
             Call(c.responses[c.executions[j].round].content[b])
               = Call(c.executions[j])
    /\ IF c.pc = "done"
       THEN AloneResult(c)
       ELSE c.outcome = "running" /\ Len(c.requests) = Len(c.responses)

\* C30: for two generate_response calls running concurrently on one
\* controller instance, under every interleaving of their model requests and
\* tool executions, each call's requests hold its own query, history,
\* conversation turns and tool results only, and each call's request sequence
\* and return value are those of the call running alone with the same
\* responses and tool outcomes; the instance's base_params is never changed.
C30_CallsIsolated ==
    /\ base_params = BaseParams
    /\ RunsAsAlone(Running)
    /\ RunsAsAlone(parked)

\* two legacy calls are under way at once, each after a tool execution of its
\* own: the second call has issued its follow-up request while the first is
\* still inside its tool loop
C30_Witness ==
    /\ active = 2 /\ query = OtherQuery
    /\ path = "legacy" /\ Len(requests) = 2 /\ Len(executions) >= 1
    /\ parked.path = "legacy" /\ parked.pc = "handle_tool_execution"
    /\ Len(parked.executions) >= 1
    /\ last_sources # <<>>

\* a sequential call is between the two requests of its rounds, with two tools
\* executed, and the other call has got its answer meanwhile
C30_WitnessSequential ==
    /\ active = 1
    /\ path = "sequential" /\ pc = "round_tools" /\ Len(requests) = 2
    /\ Len(executions) >= 2
    /\ parked.pc = "done" /\ Len(parked.requests) = 1

\* the positions of a turn list whose turn has the role of the turn after it
SameRoleTwice(turns) ==
    {i \in 1..(Len(turns) - 1) : turns[i].role = turns[i + 1].role}

\* C31 as stated: in every request of either path the turn list starts with
\* a user turn and no two consecutive turns have the same role.
C31_RolesAlternate ==
    \A k \in 1..Len(requests) :
        /\ requests[k].messages[1].role = "user"
        /\ SameRoleTwice(requests[k].messages) = {}

\* C31, amended: in every request of either path the turn list starts with a
\* user turn, and two consecutive turns have the same role in one place only:
\* the synthesis request ends with the last round's reply turn followed by the
\* synthesis instruction turn, both user turns.
C31_RolesAlternateUpToSynthesis ==
    \A k \in 1..Len(requests) :
        LET turns == requests[k].messages
        IN  /\ turns[1].role = "user"
            /\ \A i \in 1..Len(turns) : turns[i].role \in {"user", "assistant"}
            /\ IF k \in SynthesisRequests
               THEN /\ SameRoleTwice(turns) = {Len(turns) - 1}
                    /\ turns[Len(turns)].role = "user"
               ELSE SameRoleTwice(turns) = {}

\* a call is over after a synthesis request, and another after a legacy
\* follow-up request with a reply turn
C31_Witness ==
    /\ Done
    /\ SynthesisRequests # {}
    /\ Len(requests[Len(requests)].messages) = 2 * max_tool_rounds + 2
    /\ executions # <<>>

C31_WitnessLegacy ==
    /\ Done
    /\ path = "legacy"
    /\ Len(requests) = 2
    /\ Len(requests[2].messages) = 3

\* the positions of the tool-use blocks of response r
ToolUsePositions(r) == {b \in 1..Len(r.content) : IsToolUse(r.content[b])}
\* a tool loop was started for the j-th response
Processed(j) ==
    /\ responses[j].stop_reason = "tool_use"
    /\ IF path = "sequential" THEN j <= max_tool_rounds
       ELSE j = 1 /\ tool_manager
\* the blocks of the j-th response its tool loop has gone through: all of them
\* once the loop is over, those before the loop's position while it runs, and
\* those up to the block whose execution ended the legacy loop by raising
ReachedBlocks(j) ==
    LET all == 1..Len(responses[j].content)
    IN  IF ~Processed(j) THEN {}
        ELSE IF path = "sequential"
        THEN IF j < current_round THEN all
             ELSE IF pc = "round_tools" THEN 1..(blk - 1) ELSE {}
        ELSE IF pc = "done" /\ raised.type = "Exception" THEN 1..blk
             ELSE 1..(blk - 1)
\* the tool-use blocks gone through in the first n responses
RECURSIVE ReachedToolUses(_)
ReachedToolUses(n) ==
    IF n = 0 THEN 0
    ELSE ReachedToolUses(n - 1)
         + Cardinality(ToolUsePositions(responses[n]) \cap ReachedBlocks(n))

\* C32: on either path every tool execution answers a tool-use block of a
\* response whose stop reason is tool_use; no block of a response with another
\* stop reason is executed, whatever its type; and at every point the number
\* of executions is the number of tool-use blocks the tool loops have gone
\* through in the tool_use responses they were started for.
C32_ExecutedOnToolUseOnly ==
    /\ \A i \in 1..Len(executions) :
         LET j == executions[i].round
         IN  /\ j \in 1..Len(responses)
             /\ Processed(j)
             /\ \E b \in ToolUsePositions(responses[j]) :
                  Call(responses[j].content[b]) = Call(executions[i])
    /\ \A j \in 1..Len(responses) :
         responses[j].stop_reason # "tool_use" => NumExecuted(j) = 0
    /\ Len(executions) = ReachedToolUses(Len(responses))

\* a sequential call ran the two tools of its first response and returned the
\* text of a second response that held a tool-use block but did not stop for
\* tool use
C32_Witness ==
    /\ Done
    /\ path = "sequential"
    /\ Len(responses) = 2
    /\ responses[2].stop_reason = "end_turn"
    /\ NumToolUse(2) = 1
    /\ Len(executions) = 2
    /\ outcome = "returned"

\* C33: at every point of a sequential run the round tags of the accumulated
\* ToolResults never decrease along the list, each lies in
\* 1..max_tool_rounds, and each is the number of the tools-enabled request
\* whose response holds the tool-use block the result answers; the round
\* counter lies in 1..max_tool_rounds + 1.
C33_RoundTags ==
    path = "sequential" =>
      /\ current_round \in 1..(max_tool_rounds + 1)
      /\ \A i \in 1..Len(Accumulated) :
           LET res == Accumulated[i]
               r == res.round
           IN  /\ r \in 1..max_tool_rounds
               /\ r \in RoundRequests
               /\ r <= Len(responses)
               /\ responses[r].stop_reason = "tool_use"
               /\ \E b \in ToolUsePositions(responses[r]) :
                    /\ responses[r].content[b].id = res.tool_use_id
                    /\ responses[r].content[b].name = res.tool_name
               /\ \A q \in (RoundRequests \ {r}) : q <= Len(responses) =>
                    \A b \in ToolUsePositions(responses[q]) :
                        responses[q].content[b].id # res.tool_use_id
               /\ i < Len(Accumulated) => r <= Accumulated[i + 1].round

\* results of two rounds are accumulated, two of the first round and one of
\* the second, and the round counter stands at max_tool_rounds + 1
C33_Witness ==
    /\ path = "sequential"
    /\ Len(round_results) = 3
    /\ round_results[1].round = 1
    /\ round_results[2].round = 1
    /\ round_results[3].round = 2
    /\ current_round = max_tool_rounds + 1

\* what the caller of call c can observe of it
ResultOf(c) ==
    [outcome |-> c.outcome, returned |-> c.returned, raised |-> c.raised]
CallsOf(c) == [i \in 1..Len(c.executions) |-> Call(c.executions[i])]
\* the tool_result entries the second request of call c delivers
EntriesDelivered(c) ==
    LET turns == c.requests[2].messages
    IN  IF Len(turns) >= 3 THEN turns[3].content ELSE <<>>
\* the finished legacy call (parked) and the finished sequential call
\* (running) got the same two responses, the first one stopping for tool use
\* and the second one not, and the same outcome, never an exception, from
\* every tool execution they have in common
SameRunOnBothPaths ==
    /\ active = 2 /\ pc = "done" /\ path = "sequential"
    /\ parked.pc = "done" /\ parked.path = "legacy"
    /\ Len(responses) >= 2 /\ Len(parked.responses) >= 2
    /\ responses[1] = parked.responses[1]
    /\ responses[2] = parked.responses[2]
    /\ responses[1].stop_reason = "tool_use"
    /\ responses[2].stop_reason # "tool_use"
    /\ \A i \in 1..Len(executions) : ~executions[i].raised
    /\ \A i \in 1..Len(parked.executions) : ~parked.executions[i].raised
    /\ \A i \in 1..Min(Len(executions), Len(parked.executions)) :
         executions[i].output = parked.executions[i].output

\* C34: when the first response stops for tool use, no tool execution raises
\* and the second response does not stop for tool use, the legacy path and the
\* sequential path issue exactly two requests each, run the same tool
\* executions in the same order, deliver the same tool_result entries in the
\* second request, and end the same way: with the text of the second response
\* whenever its first block is a text block.
C34_PathsEquivalent ==
    SameRunOnBothPaths =>
        /\ Len(requests) = 2 /\ Len(parked.requests) = 2
        /\ CallsOf(Running) = CallsOf(parked)
        /\ CallsOf(Running) = BlockCalls(responses[1])
        /\ EntriesDelivered(Running) = EntriesDelivered(parked)
        /\ ResultOf(Running) \in ContentText(responses[2])
        /\ ResultOf(parked) \in ContentText(responses[2])
        /\ (responses[2].content # <<>> /\ responses[2].content[1].type = "text")
             => /\ ResultOf(Running) = ResultOf(parked)
                /\ outcome = "returned"
                /\ returned = SomeText(responses[2].content[1].text)

\* both calls ran the two tools of the first response, got different texts
\* from them, and returned the text of the second response
C34_Witness ==
    /\ SameRunOnBothPaths
    /\ Len(executions) = 2
    /\ executions[1].output # executions[2].output
    /\ Len(EntriesDelivered(parked)) = 2
    /\ outcome = "returned" /\ returned = SomeText(<<"answer", "2">>)
    /\ parked.returned = returned
    /\ conversation_history.some


====
